---- MODULE Spec2Model ----
(***************************************************************************)
(* tinychat (main.go): the Server registry (Rooms, Clients), the Client    *)
(* objects and the per-connection session (initClient, clientRun).         *)
(*                                                                         *)
(* Every Server method locks s.mu on entry and unlocks it on return, so a  *)
(* whole method is one atomic step of the model.  Go maps are functions    *)
(* whose DOMAIN is the set of keys present.  Ranging over a Go map visits  *)
(* the keys in an unspecified order, so findRoom may return any room that  *)
(* holds the nickname: it is modelled as the set of its possible results.  *)
(***************************************************************************)
EXTENDS Integers, FiniteSets, Sequences, TLC

\* ---- bounds ----
NumClients == 2        \* connections accepted
NumNames == 1          \* names a user may type besides the generated ones
NumRooms == 1          \* room names a user may type after /room
MaxLines == 4          \* input lines read by the sessions, in total
MaxLockLines == 1      \* the same in LockSpec, whose steps are finer

ClientIds == 1..NumClients
Nicks == 1..(NumClients + NumNames)
DefaultRoom == 0
RoomNames == 0..NumRooms
\* /room lower-cases its argument, so it never names "Gotham City"
TypedRooms == 1..NumRooms
nil == -1

\* initClient: uname := "user" + UnixNano, distinct per connection
uname(c) == c

VARIABLES
    Rooms,     \* s.Rooms: room name -> (nickname -> client)
    Clients,   \* s.Clients: nickname -> client
    nick,      \* cl.nick of every client
    Conn,      \* TRUE while cl.Conn has not been closed by the server
    pc,        \* position of every session: "init", "run", "nick", "done"
    writes,    \* number of cl.Write calls per client made by the last step
    last,      \* the Server call made by the last step and its result
    lines,     \* number of input lines the sessions have read so far
    runFrom,   \* clientRun's local variable from of every session handling /nick
    smu,       \* the session that holds s.mu, or nil
    cmu,       \* for every client, the session that holds cl.mu, or nil
    fan,       \* the entries a fan-out loop in progress has still to write to
    visit,     \* the key of the entry the fan-out loop is at, or nil
    stuck      \* the clients whose transport never completes a write

vars == <<Rooms, Clients, nick, Conn, pc, writes, last, lines, runFrom,
          smu, cmu, fan, visit, stuck>>

\* the locks and the fan-out loop: a whole Server method is one step of Spec,
\* which therefore leaves them alone; LockSpec below takes the methods apart
lockVars == <<smu, cmu, fan, visit, stuck>>

\* ---- Go map primitives ----
EmptyMap == [k \in {} |-> nil]
Put(m, k, v) == [x \in (DOMAIN m) \cup {k} |-> IF x = k THEN v ELSE m[x]]
Del(m, k) == [x \in (DOMAIN m) \ {k} |-> m[x]]

NoWrites == [c \in ClientIds |-> 0]
WriteTo(c) == [x \in ClientIds |-> IF x = c THEN 1 ELSE 0]
\* one Write per key of the map m, counted per receiving client
FanOut(m) == [c \in ClientIds |-> Cardinality({k \in DOMAIN m : m[k] = c})]

\* ---- Server helpers ----
clientExists(C, n) == n \in DOMAIN C

roomExists(R, roomname) == roomname \in DOMAIN R

\* findRoom without the membership test of line 262: the first room visited
\* is returned whether or not it holds the nickname
findRoomAnyRoom(R, n) ==
    IF DOMAIN R = {} THEN {nil} ELSE DOMAIN R

\* the rooms findRoom may return for nickname n; {nil} (with an error) if none
findRoom(R, n) ==
    LET found == {r \in DOMAIN R : n \in DOMAIN R[r]}
    IN  IF found = {} THEN {nil} ELSE found

\* the possible values of s.Rooms after tryDeleteFromRoom
tryDeleteFromRoom(R, n) ==
    {IF r = nil THEN R ELSE [R EXCEPT ![r] = Del(R[r], n)] : r \in findRoom(R, n)}

createRoom(R, roomname) == Put(R, roomname, EmptyMap)

addClient(C, n, cl) ==
    IF ~clientExists(C, n)
    THEN [C |-> Put(C, n, cl), err |-> "nil"]
    ELSE [C |-> C, err |-> "Client already exists"]

\* joinRoom without the insertion of line 243: the client is indexed but
\* seated in no room
joinRoomNoSeat(R, C, roomname, n, cl) ==
    LET R1 == IF ~roomExists(R, roomname) THEN createRoom(R, roomname) ELSE R
        a == addClient(C, n, cl)
    IN  [R |-> R1, C |-> a.C, err |-> a.err]

joinRoom(R, C, roomname, n, cl) ==
    LET R1 == IF ~roomExists(R, roomname) THEN createRoom(R, roomname) ELSE R
        R2 == [R1 EXCEPT ![roomname] = Put(R1[roomname], n, cl)]
        a == addClient(C, n, cl)
    IN  [R |-> R2, C |-> a.C, err |-> a.err]

\* ---- Server methods: the set of possible outcomes of one call ----
JoinRoom(R, C, nk, roomname, cl) ==
    {joinRoom(R1, C, roomname, nk[cl], cl) : R1 \in tryDeleteFromRoom(R, nk[cl])}

\* ChangeNick without the test of lines 115-119: a taken name is not refused
ChangeNickNoTakenCheck(R, C, nk, from, to) ==
    IF clientExists(C, from)
    THEN LET cl == C[from]
         IN  {IF r = nil
              THEN [R |-> R, C |-> C, nick |-> nk, err |-> "does not have a room"]
              ELSE [R |-> [R EXCEPT ![r] = Put(Del(R[r], from), to, cl)],
                    C |-> Put(Del(C, from), to, cl),
                    nick |-> [nk EXCEPT ![cl] = to],
                    err |-> "nil"]
              : r \in findRoom(R, nk[cl])}
    ELSE {[R |-> R, C |-> C, nick |-> nk, err |-> "does not exists"]}

\* ChangeNick without the else branch of lines 136-140: an unknown name
\* falls through to return nil
ChangeNickNoUnknownCheck(R, C, nk, from, to) ==
    IF clientExists(C, to)
    THEN {[R |-> R, C |-> C, nick |-> nk, err |-> "already exists"]}
    ELSE IF clientExists(C, from)
    THEN LET cl == C[from]
         IN  {IF r = nil
              THEN [R |-> R, C |-> C, nick |-> nk, err |-> "does not have a room"]
              ELSE [R |-> [R EXCEPT ![r] = Put(Del(R[r], from), to, cl)],
                    C |-> Put(Del(C, from), to, cl),
                    nick |-> [nk EXCEPT ![cl] = to],
                    err |-> "nil"]
              : r \in findRoom(R, nk[cl])}
    ELSE {[R |-> R, C |-> C, nick |-> nk, err |-> "nil"]}

ChangeNick(R, C, nk, from, to) ==
    IF clientExists(C, to)
    THEN {[R |-> R, C |-> C, nick |-> nk, err |-> "already exists"]}
    ELSE IF clientExists(C, from)
    THEN LET cl == C[from]
         IN  {IF r = nil
              THEN [R |-> R, C |-> C, nick |-> nk, err |-> "does not have a room"]
              ELSE [R |-> [R EXCEPT ![r] = Put(Del(R[r], from), to, cl)],
                    C |-> Put(Del(C, from), to, cl),
                    nick |-> [nk EXCEPT ![cl] = to],
                    err |-> "nil"]
              : r \in findRoom(R, nk[cl])}
    ELSE {[R |-> R, C |-> C, nick |-> nk, err |-> "does not exists"]}

Message(R, nk, cl) ==
    {IF r = nil
     THEN [room |-> nil, writes |-> NoWrites, err |-> "does not have a room"]
     ELSE [room |-> r, writes |-> FanOut(R[r]), err |-> "nil"]
     : r \in findRoom(R, nk[cl])}

Blast(C) == FanOut(C)

CloseClient(C, nk, cl) == Del(C, nk[cl])

NewServer == [Rooms |-> EmptyMap, Clients |-> EmptyMap]

\* what is recorded of a Server call: its arguments, the error it returned,
\* whether from and to were keys of s.Clients when it was made, and whether
\* it left s.Rooms, s.Clients and every cl.nick as they were
Call(op, cl, room, from, to, err, fromIn, toIn, same) ==
    [op |-> op, cl |-> cl, room |-> room, from |-> from, to |-> to, err |-> err,
     fromIn |-> fromIn, toIn |-> toIn, same |-> same]

NoCall == Call("none", nil, nil, nil, nil, "nil", FALSE, FALSE, TRUE)

Init ==
    /\ Rooms = NewServer.Rooms
    /\ Clients = NewServer.Clients
    /\ nick = [c \in ClientIds |-> uname(c)]
    /\ Conn = [c \in ClientIds |-> TRUE]
    /\ pc = [c \in ClientIds |-> "init"]
    /\ writes = NoWrites
    /\ last = NoCall
    /\ lines = 0
    /\ runFrom = [c \in ClientIds |-> nil]
    /\ smu = nil
    /\ cmu = [c \in ClientIds |-> nil]
    /\ fan = EmptyMap
    /\ visit = nil
    /\ stuck = {}

\* buf.ReadString returns the next input line
ReadString(cl) ==
    /\ lines < MaxLines
    /\ lines' = lines + 1

\* initClient: JoinRoom(DefaultRoom, cl), write the banner, enter clientRun
initClient(cl) ==
    /\ pc[cl] = "init"
    /\ \E res \in JoinRoom(Rooms, Clients, nick, DefaultRoom, cl) :
          /\ Rooms' = res.R
          /\ Clients' = res.C
          /\ last' = Call("JoinRoom", cl, DefaultRoom, nil, nil, res.err, FALSE, FALSE,
                        res.R = Rooms /\ res.C = Clients)
    /\ writes' = WriteTo(cl)
    /\ pc' = [pc EXCEPT ![cl] = "run"]
    /\ UNCHANGED <<nick, Conn, lines, runFrom>>
    /\ UNCHANGED lockVars

\* clientRun, case "/room" with a name
cmdRoom(cl, roomname) ==
    /\ pc[cl] = "run"
    /\ ReadString(cl)
    /\ \E res \in JoinRoom(Rooms, Clients, nick, roomname, cl) :
          /\ Rooms' = res.R
          /\ Clients' = res.C
          /\ last' = Call("JoinRoom", cl, roomname, nil, nil, res.err, FALSE, FALSE,
                        res.R = Rooms /\ res.C = Clients)
    /\ writes' = WriteTo(cl)
    /\ UNCHANGED <<nick, Conn, pc, runFrom>>
    /\ UNCHANGED lockVars

\* clientRun, case "/nick" with a name: from := cl.Nick() is read before
\* ChangeNick takes the server lock
cmdNickFrom(cl) ==
    /\ pc[cl] = "run"
    /\ ReadString(cl)
    /\ runFrom' = [runFrom EXCEPT ![cl] = nick[cl]]
    /\ pc' = [pc EXCEPT ![cl] = "nick"]
    /\ writes' = NoWrites
    /\ last' = NoCall
    /\ UNCHANGED <<Rooms, Clients, nick, Conn>>
    /\ UNCHANGED lockVars

\* clientRun, case "/nick" with a name: ChangeNick(from, to) and the reply
cmdNick(cl, to) ==
    /\ pc[cl] = "nick"
    /\ \E res \in ChangeNick(Rooms, Clients, nick, runFrom[cl], to) :
          /\ Rooms' = res.R
          /\ Clients' = res.C
          /\ nick' = res.nick
          /\ last' = Call("ChangeNick", cl, nil, runFrom[cl], to, res.err,
                        clientExists(Clients, runFrom[cl]), clientExists(Clients, to),
                        res.R = Rooms /\ res.C = Clients /\ res.nick = nick)
    /\ writes' = WriteTo(cl)
    /\ runFrom' = [runFrom EXCEPT ![cl] = nil]
    /\ pc' = [pc EXCEPT ![cl] = "run"]
    /\ UNCHANGED <<Conn, lines>>
    /\ UNCHANGED lockVars

\* clientRun, case "/quit": the loop goes on after CloseClient
cmdQuit(cl) ==
    /\ pc[cl] = "run"
    /\ ReadString(cl)
    /\ Conn' = [Conn EXCEPT ![cl] = FALSE]
    /\ Clients' = CloseClient(Clients, nick, cl)
    /\ writes' = NoWrites
    /\ last' = Call("CloseClient", cl, nil, nil, nil, "nil", FALSE, FALSE,
                  CloseClient(Clients, nick, cl) = Clients)
    /\ UNCHANGED <<Rooms, nick, pc, runFrom>>
    /\ UNCHANGED lockVars

\* clientRun, default case: a plain line is a message to the room
cmdMessage(cl) ==
    /\ pc[cl] = "run"
    /\ ReadString(cl)
    /\ \E res \in Message(Rooms, nick, cl) :
          /\ writes' = res.writes
          /\ last' = Call("Message", cl, res.room, nil, nil, res.err, FALSE, FALSE, TRUE)
    /\ UNCHANGED <<Rooms, Clients, nick, Conn, pc, runFrom>>
    /\ UNCHANGED lockVars

\* clientRun, case "/blast"
cmdBlast(cl) ==
    /\ pc[cl] = "run"
    /\ ReadString(cl)
    /\ writes' = Blast(Clients)
    /\ last' = Call("Blast", cl, nil, nil, nil, "nil", FALSE, FALSE, TRUE)
    /\ UNCHANGED <<Rooms, Clients, nick, Conn, pc, runFrom>>
    /\ UNCHANGED lockVars

\* clientRun, the cases that only reply: empty line, /help, /room and /nick
\* without a name
cmdReply(cl) ==
    /\ pc[cl] = "run"
    /\ ReadString(cl)
    /\ writes' = WriteTo(cl)
    /\ last' = NoCall
    /\ UNCHANGED <<Rooms, Clients, nick, Conn, pc, runFrom>>
    /\ UNCHANGED lockVars

\* clientRun, ReadString fails: break out of the loop
readError(cl) ==
    /\ pc[cl] = "run"
    /\ pc' = [pc EXCEPT ![cl] = "done"]
    /\ writes' = NoWrites
    /\ last' = NoCall
    /\ UNCHANGED <<Rooms, Clients, nick, Conn, lines, runFrom>>
    /\ UNCHANGED lockVars

Next ==
    \E cl \in ClientIds :
        \/ initClient(cl)
        \/ \E roomname \in TypedRooms : cmdRoom(cl, roomname)
        \/ cmdNickFrom(cl)
        \/ \E to \in Nicks : cmdNick(cl, to)
        \/ cmdQuit(cl)
        \/ cmdMessage(cl)
        \/ cmdBlast(cl)
        \/ cmdReply(cl)
        \/ readError(cl)

Spec == Init /\ [][Next]_vars

TypeOK ==
    /\ DOMAIN Rooms \subseteq RoomNames
    /\ \A r \in DOMAIN Rooms :
          /\ DOMAIN Rooms[r] \subseteq Nicks
          /\ \A n \in DOMAIN Rooms[r] : Rooms[r][n] \in ClientIds
    /\ DOMAIN Clients \subseteq Nicks
    /\ \A n \in DOMAIN Clients : Clients[n] \in ClientIds
    /\ nick \in [ClientIds -> Nicks]
    /\ Conn \in [ClientIds -> BOOLEAN]
    /\ pc \in [ClientIds -> {"init", "run", "nick", "done", "JoinRoom",
                             "ChangeNick", "mid", "CloseClient", "Message",
                             "Blast", "fanl", "fanw", "reply", "write"}]
    /\ runFrom \in [ClientIds -> Nicks \cup {nil}]
    /\ writes \in [ClientIds -> Nat]
    /\ lines \in 0..MaxLines
    /\ smu \in ClientIds \cup {nil}
    /\ cmu \in [ClientIds -> ClientIds \cup {nil}]
    /\ DOMAIN fan \subseteq Nicks
    /\ visit \in Nicks \cup {nil}
    /\ stuck \subseteq ClientIds

(***************************************************************************)
(* The same program with the Server methods taken apart at their lock      *)
(* operations.  A session that calls a method first takes s.mu, then runs  *)
(* the body, and releases s.mu on return; Client.Write takes cl.mu, calls  *)
(* Conn.Write and releases cl.mu; Client.Nick takes and releases cl.mu     *)
(* around one read.  Conn.Write to a client in stuck never returns.  In    *)
(* these steps last is the call in progress, and NoCall when there is none.*)
(***************************************************************************)

\* s.mu.Lock() without the mutex: the caller goes on whoever holds s.mu
LockNoMutex(cl) == smu' = cl

\* s.mu.Lock()
Lock(cl) == smu = nil /\ smu' = cl

\* the deferred s.mu.Unlock()
Unlock(cl) == smu' = nil

\* cl.mu.Lock() on client d by session t
ClientLock(t, d) == cmu[d] = nil /\ cmu' = [cmu EXCEPT ![d] = t]

\* Client.Write without its deferred cl.mu.Unlock()
ClientUnlockMissing(d) == cmu' = cmu

\* the deferred cl.mu.Unlock() on client d
ClientUnlock(d) == cmu' = [cmu EXCEPT ![d] = nil]

\* Client.Nick() on client d can take cl.mu, read and release
Nick(d) == cmu[d] = nil

\* cl.Conn.Write on client d returns: the transport takes the bytes, or the
\* connection is closed and the call fails at once
ConnWrite(d) == d \notin stuck \/ ~Conn[d]

\* buf.ReadString returns the next input line
ReadLine(cl) ==
    /\ lines < MaxLockLines
    /\ lines' = lines + 1

\* entry of a Server method: the lock is taken and the call is in progress
Enter(cl, op, room, from, to) ==
    /\ Lock(cl)
    /\ last' = Call(op, cl, room, from, to, "nil", FALSE, FALSE, TRUE)
    /\ pc' = [pc EXCEPT ![cl] = op]

\* return of a Server method: the deferred Unlock, then position next
Return(cl, next) ==
    /\ Unlock(cl)
    /\ last' = NoCall
    /\ pc' = [pc EXCEPT ![cl] = next]

LockInit ==
    /\ Rooms = NewServer.Rooms
    /\ Clients = NewServer.Clients
    /\ nick = [c \in ClientIds |-> uname(c)]
    /\ Conn = [c \in ClientIds |-> TRUE]
    /\ pc = [c \in ClientIds |-> "init"]
    /\ writes = NoWrites
    /\ last = NoCall
    /\ lines = 0
    /\ runFrom = [c \in ClientIds |-> nil]
    /\ smu = nil
    /\ cmu = [c \in ClientIds |-> nil]
    /\ fan = EmptyMap
    /\ visit = nil
    /\ stuck \in {{}} \cup {{c} : c \in ClientIds}

\* initClient calls JoinRoom(DefaultRoom, cl)
lkInit(cl) ==
    /\ pc[cl] = "init"
    /\ Enter(cl, "JoinRoom", DefaultRoom, nil, nil)
    /\ UNCHANGED <<Rooms, Clients, nick, Conn, writes, lines, runFrom, cmu, fan, visit, stuck>>

\* clientRun, case "/room" with a name, calls JoinRoom
lkRoom(cl, roomname) ==
    /\ pc[cl] = "run"
    /\ ReadLine(cl)
    /\ Enter(cl, "JoinRoom", roomname, nil, nil)
    /\ UNCHANGED <<Rooms, Clients, nick, Conn, writes, runFrom, cmu, fan, visit, stuck>>

\* the body of JoinRoom and its return; the caller then writes its reply
doJoinRoom(cl) ==
    /\ pc[cl] = "JoinRoom"
    /\ Nick(cl)
    /\ \E res \in JoinRoom(Rooms, Clients, nick, last.room, cl) :
          /\ Rooms' = res.R
          /\ Clients' = res.C
    /\ Return(cl, "reply")
    /\ UNCHANGED <<nick, Conn, writes, lines, runFrom, cmu, fan, visit, stuck>>

\* clientRun, case "/nick" with a name: from := cl.Nick()
lkNickFrom(cl) ==
    /\ pc[cl] = "run"
    /\ ReadLine(cl)
    /\ Nick(cl)
    /\ runFrom' = [runFrom EXCEPT ![cl] = nick[cl]]
    /\ pc' = [pc EXCEPT ![cl] = "nick"]
    /\ UNCHANGED <<Rooms, Clients, nick, Conn, writes, last, smu, cmu, fan, visit, stuck>>

\* clientRun, case "/nick" with a name, calls ChangeNick(from, to)
lkNick(cl, to) ==
    /\ pc[cl] = "nick"
    /\ Enter(cl, "ChangeNick", nil, runFrom[cl], to)
    /\ runFrom' = [runFrom EXCEPT ![cl] = nil]
    /\ UNCHANGED <<Rooms, Clients, nick, Conn, writes, lines, cmu, fan, visit, stuck>>

\* ChangeNick up to line 131: the two tests, findRoom, delete(r.Clients, from)
doChangeNickFind(cl) ==
    /\ pc[cl] = "ChangeNick"
    /\ IF clientExists(Clients, last.to) \/ ~clientExists(Clients, last.from)
       THEN /\ Return(cl, "reply")
            /\ UNCHANGED Rooms
       ELSE /\ Nick(Clients[last.from])
            /\ \E r \in findRoom(Rooms, nick[Clients[last.from]]) :
                  IF r = nil
                  THEN /\ Return(cl, "reply")
                       /\ UNCHANGED Rooms
                  ELSE /\ Rooms' = [Rooms EXCEPT ![r] = Del(Rooms[r], last.from)]
                       /\ last' = [last EXCEPT !.room = r]
                       /\ pc' = [pc EXCEPT ![cl] = "mid"]
                       /\ UNCHANGED smu
    /\ UNCHANGED <<Clients, nick, Conn, writes, lines, runFrom, cmu, fan, visit, stuck>>

\* ChangeNick, lines 132-135 and the return: delete(s.Clients, from),
\* cl.nick = to with no client lock taken, the two insertions
doChangeNickSet(cl) ==
    /\ pc[cl] = "mid"
    /\ LET target == Clients[last.from]
       IN  /\ Clients' = Put(Del(Clients, last.from), last.to, target)
           /\ nick' = [nick EXCEPT ![target] = last.to]
           /\ Rooms' = [Rooms EXCEPT ![last.room] = Put(Rooms[last.room], last.to, target)]
    /\ Return(cl, "reply")
    /\ UNCHANGED <<Conn, writes, lines, runFrom, cmu, fan, visit, stuck>>

\* clientRun, case "/quit", calls CloseClient
lkQuit(cl) ==
    /\ pc[cl] = "run"
    /\ ReadLine(cl)
    /\ Enter(cl, "CloseClient", nil, nil, nil)
    /\ UNCHANGED <<Rooms, Clients, nick, Conn, writes, runFrom, cmu, fan, visit, stuck>>

\* the body of CloseClient and its return
doCloseClient(cl) ==
    /\ pc[cl] = "CloseClient"
    /\ Nick(cl)
    /\ Conn' = [Conn EXCEPT ![cl] = FALSE]
    /\ Clients' = CloseClient(Clients, nick, cl)
    /\ Return(cl, "run")
    /\ UNCHANGED <<Rooms, nick, writes, lines, runFrom, cmu, fan, visit, stuck>>

\* clientRun, default case, calls Message
lkMessage(cl) ==
    /\ pc[cl] = "run"
    /\ ReadLine(cl)
    /\ Enter(cl, "Message", nil, nil, nil)
    /\ UNCHANGED <<Rooms, Clients, nick, Conn, writes, runFrom, cmu, fan, visit, stuck>>

\* Message up to the fan-out loop: findRoom fails and the call returns, or
\* the loop starts over r.Clients at whichever entry the map yields first
doMessage(cl) ==
    /\ pc[cl] = "Message"
    /\ Nick(cl)
    /\ \E res \in Message(Rooms, nick, cl) :
          IF res.err # "nil"
          THEN /\ Return(cl, "run")
               /\ UNCHANGED <<fan, visit>>
          ELSE /\ fan' = Rooms[res.room]
               /\ \E k \in DOMAIN Rooms[res.room] : visit' = k
               /\ last' = [last EXCEPT !.room = res.room]
               /\ pc' = [pc EXCEPT ![cl] = "fanl"]
               /\ UNCHANGED smu
    /\ UNCHANGED <<Rooms, Clients, nick, Conn, writes, lines, runFrom, cmu, stuck>>

\* clientRun, case "/blast", calls Blast
lkBlast(cl) ==
    /\ pc[cl] = "run"
    /\ ReadLine(cl)
    /\ Enter(cl, "Blast", nil, nil, nil)
    /\ UNCHANGED <<Rooms, Clients, nick, Conn, writes, runFrom, cmu, fan, visit, stuck>>

\* Blast up to the fan-out loop over s.Clients
doBlast(cl) ==
    /\ pc[cl] = "Blast"
    /\ Nick(cl)
    /\ IF DOMAIN Clients = {}
       THEN /\ Return(cl, "run")
            /\ UNCHANGED <<fan, visit>>
       ELSE /\ fan' = Clients
            /\ \E k \in DOMAIN Clients : visit' = k
            /\ pc' = [pc EXCEPT ![cl] = "fanl"]
            /\ UNCHANGED <<smu, last>>
    /\ UNCHANGED <<Rooms, Clients, nick, Conn, writes, lines, runFrom, cmu, stuck>>

\* c.Write on the entry the loop is at: c.mu is taken
fanLock(cl) ==
    /\ pc[cl] = "fanl"
    /\ ClientLock(cl, fan[visit])
    /\ pc' = [pc EXCEPT ![cl] = "fanw"]
    /\ UNCHANGED <<Rooms, Clients, nick, Conn, writes, last, lines, runFrom, smu, fan, visit, stuck>>

\* Conn.Write returns inside the loop and c.mu is released; the loop goes to
\* whichever entry the map yields next, and after the last one the method
\* returns
fanWrite(cl) ==
    /\ pc[cl] = "fanw"
    /\ ConnWrite(fan[visit])
    /\ ClientUnlock(fan[visit])
    /\ fan' = Del(fan, visit)
    /\ IF DOMAIN fan = {visit}
       THEN /\ Return(cl, "run")
            /\ visit' = nil
       ELSE /\ \E k \in DOMAIN fan \ {visit} : visit' = k
            /\ pc' = [pc EXCEPT ![cl] = "fanl"]
            /\ UNCHANGED <<smu, last>>
    /\ UNCHANGED <<Rooms, Clients, nick, Conn, writes, lines, runFrom, stuck>>

\* clientRun, the cases that only reply
lkReply(cl) ==
    /\ pc[cl] = "run"
    /\ ReadLine(cl)
    /\ pc' = [pc EXCEPT ![cl] = "reply"]
    /\ UNCHANGED <<Rooms, Clients, nick, Conn, writes, last, runFrom, smu, cmu, fan, visit, stuck>>

\* cl.Write of the session's own reply or banner: cl.mu is taken
replyLock(cl) ==
    /\ pc[cl] = "reply"
    /\ ClientLock(cl, cl)
    /\ pc' = [pc EXCEPT ![cl] = "write"]
    /\ UNCHANGED <<Rooms, Clients, nick, Conn, writes, last, lines, runFrom, smu, fan, visit, stuck>>

\* Conn.Write of the reply returns, cl.mu is released
replyWrite(cl) ==
    /\ pc[cl] = "write"
    /\ ConnWrite(cl)
    /\ ClientUnlock(cl)
    /\ pc' = [pc EXCEPT ![cl] = "run"]
    /\ UNCHANGED <<Rooms, Clients, nick, Conn, writes, last, lines, runFrom, smu, fan, visit, stuck>>

\* clientRun, ReadString fails: break out of the loop
lkReadError(cl) ==
    /\ pc[cl] = "run"
    /\ pc' = [pc EXCEPT ![cl] = "done"]
    /\ UNCHANGED <<Rooms, Clients, nick, Conn, writes, last, lines, runFrom, smu, cmu, fan, visit, stuck>>

LockNext ==
    \E cl \in ClientIds :
        \/ lkInit(cl)
        \/ \E roomname \in TypedRooms : lkRoom(cl, roomname)
        \/ doJoinRoom(cl)
        \/ lkNickFrom(cl)
        \/ \E to \in Nicks : lkNick(cl, to)
        \/ doChangeNickFind(cl)
        \/ doChangeNickSet(cl)
        \/ lkQuit(cl)
        \/ doCloseClient(cl)
        \/ lkMessage(cl)
        \/ doMessage(cl)
        \/ lkBlast(cl)
        \/ doBlast(cl)
        \/ fanLock(cl)
        \/ fanWrite(cl)
        \/ lkReply(cl)
        \/ replyLock(cl)
        \/ replyWrite(cl)
        \/ lkReadError(cl)

\* every goroutine that can take a step is eventually scheduled
LockSpec == LockInit /\ [][LockNext]_vars /\ WF_vars(LockNext)

\* ---- observations used by the properties ----
\* a client is connected from accept until the server closes its connection
\* or its session ends
connected(c) == Conn[c] /\ pc[c] # "done"

\* the rooms whose member set has nickname n as a key
roomsOf(n) == {r \in DOMAIN Rooms : n \in DOMAIN Rooms[r]}

\* the clients stored in the member set of room r
members(r) == {Rooms[r][n] : n \in DOMAIN Rooms[r]}

\* no other client object carries the nickname of c
uniqueNick(c) == \A d \in ClientIds \ {c} : nick[d] # nick[c]

\* client d holds its nickname: it is connected or still in the flat index
holdsNick(d) ==
    connected(d) \/ (nick[d] \in DOMAIN Clients /\ Clients[nick[d]] = d)

\* no other client holds the nickname of c
uniqueHolder(c) ==
    \A d \in ClientIds \ {c} : holdsNick(d) => nick[d] # nick[c]

\* CloseClient has not been called so far
noCloseYet == \A c \in ClientIds : Conn[c]

\* the step is a call JoinRoom(r, c)
isJoinRoom(c, r) ==
    /\ last'.op = "JoinRoom" /\ last'.cl = c /\ last'.room = r
    /\ vars' # vars

\* the step is a call ChangeNick(f, t)
isChangeNick(f, t) ==
    /\ last'.op = "ChangeNick" /\ last'.from = f /\ last'.to = t
    /\ pc[last'.cl] = "nick"

\* C1: every nickname that is a key of some room's member set is a key of
\* the flat client index and maps to the same client there.
C1_MembersAreIndexed ==
    \A r \in DOMAIN Rooms : \A n \in DOMAIN Rooms[r] :
        n \in DOMAIN Clients /\ Clients[n] = Rooms[r][n]

\* C2: after CloseClient(c) returns, c's nickname is a key neither of the
\* flat index nor of any room's member set.
C2_ClosedClientRemoved ==
    last.op = "CloseClient" =>
        /\ nick[last.cl] \notin DOMAIN Clients
        /\ roomsOf(nick[last.cl]) = {}

\* C3: every nickname is a key of the member set of at most one room.
C3_NickInAtMostOneRoom ==
    \A n \in Nicks : Cardinality(roomsOf(n)) <= 1

\* C4: as long as only JoinRoom and ChangeNick (no CloseClient) have been
\* called, no two distinct connected clients have the same nickname.
C4_UniqueNicknames ==
    noCloseYet =>
        \A c \in ClientIds : \A d \in ClientIds \ {c} :
            connected(c) /\ connected(d) => nick[c] # nick[d]

\* C5: JoinRoom called by a connected client whose nickname no other client
\* holds returns success, also when the client is already in the flat index.
C5_JoinRoomSucceeds ==
    (last.op = "JoinRoom" /\ connected(last.cl) /\ uniqueNick(last.cl)) =>
        last.err = "nil"

\* the state JoinRoom(r, c) is to leave behind
joinPost(c, r) ==
    /\ r \in DOMAIN Rooms
    /\ nick[c] \in DOMAIN Rooms[r]
    /\ Rooms[r][nick[c]] = c
    /\ roomsOf(nick[c]) = {r}
    /\ nick[c] \in DOMAIN Clients
    /\ Clients[nick[c]] = c

\* C6: after JoinRoom(r, c) by a connected client whose nickname no other
\* connected or indexed client has, room r exists, c's nickname is a key of r's member
\* set and of no other room's, and c is in the flat index; a second
\* JoinRoom(r, c) right after the first leaves Rooms and Clients as they were.
C6_JoinRoomPostAndIdempotent ==
    [][\A c \in ClientIds : \A r \in RoomNames :
          (isJoinRoom(c, r) /\ connected(c)' /\ uniqueHolder(c)') =>
              /\ joinPost(c, r)'
              /\ (last.op = "JoinRoom" /\ last.cl = c /\ last.room = r) =>
                     (Rooms' = Rooms /\ Clients' = Clients)]_vars

\* the state ChangeNick(f, t) is to leave behind when f is indexed, t is not
renamePost(f, t) ==
    LET c == Clients[f]
        before == {r \in DOMAIN Rooms : f \in DOMAIN Rooms[r] /\ Rooms[r][f] = c}
    IN  /\ last'.err = "nil"
        /\ nick'[c] = t
        /\ DOMAIN Clients' = (DOMAIN Clients \ {f}) \cup {t}
        /\ Clients'[t] = c
        /\ before # {}
        /\ \A r \in before :
              /\ f \notin DOMAIN Rooms'[r]
              /\ t \in DOMAIN Rooms'[r]
              /\ Rooms'[r][t] = c
        /\ \A d \in ClientIds \ {c} : nick'[d] = nick[d]
        /\ \A n \in DOMAIN Clients \ {f} : Clients'[n] = Clients[n]
        /\ DOMAIN Rooms' = DOMAIN Rooms
        /\ \A r \in DOMAIN Rooms : \A n \in DOMAIN Rooms[r] :
              (Rooms[r][n] # c /\ connected(Rooms[r][n])) =>
                  (n \in DOMAIN Rooms'[r] /\ Rooms'[r][n] = Rooms[r][n])

\* C7: ChangeNick(f, t) with f in the flat index and t not in it succeeds;
\* afterwards the client's nickname is t, t is a key of the flat index and
\* of the room the client was in, f is a key of neither, and the nickname,
\* room entry and index entry of every other connected client are unchanged.
C7_RenameMovesOneClient ==
    [][\A f \in Nicks : \A t \in Nicks :
          (isChangeNick(f, t) /\ f \in DOMAIN Clients /\ t \notin DOMAIN Clients)
              => renamePost(f, t)]_vars

\* C8: ChangeNick(a, b) with b a key of the flat index (b = a included) fails
\* with the name-taken error and changes neither the flat index, nor any
\* room's member set, nor any nickname.
C8_TakenNameRefused ==
    (last.op = "ChangeNick" /\ last.toIn) =>
        (last.err = "already exists" /\ last.same)

\* a rename to a name held by another client has just been refused
C8_Witness ==
    /\ last.op = "ChangeNick" /\ last.toIn
    /\ last.to # last.from
    /\ last.to \in DOMAIN Clients /\ Clients[last.to] # last.cl

\* C9: ChangeNick(old, new) with neither old nor new a key of the flat index
\* fails with the unknown-client error and changes neither the flat index,
\* nor any room, nor any nickname.
C9_UnknownNameRefused ==
    (last.op = "ChangeNick" /\ ~last.fromIn /\ ~last.toIn) =>
        (last.err = "does not exists" /\ last.same)

\* a rename from a name that is not in the flat index has just been refused
C9_Witness ==
    /\ last.op = "ChangeNick" /\ ~last.fromIn /\ ~last.toIn
    /\ last.from \notin DOMAIN Clients /\ last.to \notin DOMAIN Clients

\* C10: a successful Message writes exactly one line to every client that is
\* a member of the sender's room, the sender included, and none to any client
\* that is a member of a different room.
C10_MessageToRoomOnly ==
    (last.op = "Message" /\ last.err = "nil") =>
        /\ writes[last.cl] = 1
        /\ \A c \in ClientIds :
              /\ c \in members(last.room) => writes[c] = 1
              /\ (\E r \in DOMAIN Rooms \ {last.room} : c \in members(r)) =>
                     writes[c] = 0

\* lines that reach client c in the last step: a Write on a connection the
\* server has closed delivers nothing
delivered(c) == IF Conn[c] THEN writes[c] ELSE 0

\* client c has joined and its session is serving its connection
serving(c) == Conn[c] /\ pc[c] \in {"run", "nick"}

\* C11: a Blast delivers exactly one line to every client that is connected
\* when it is called, whatever its room, and none to a closed client.
C11_BlastReachesAllConnected ==
    last.op = "Blast" =>
        \A c \in ClientIds :
            /\ serving(c) => delivered(c) = 1
            /\ ~Conn[c] => delivered(c) = 0

\* C12: the room lookup made by Message fails exactly when the sender's
\* nickname is a key of no room's member set, and otherwise yields a room
\* whose member set has that nickname; a Message whose lookup fails returns
\* the error, names no room and writes nothing.
C12_FindRoomExact ==
    last.op = "Message" =>
        /\ (roomsOf(nick[last.cl]) = {}) <=> (last.err # "nil")
        /\ last.err # "nil" =>
               (last.err = "does not have a room" /\ last.room = nil /\ writes = NoWrites)
        /\ last.err = "nil" => last.room \in roomsOf(nick[last.cl])

\* a Message from a serving client seated in no room has just failed
C12_Witness ==
    /\ last.op = "Message" /\ last.err = "does not have a room"
    /\ serving(last.cl)
    /\ roomsOf(nick[last.cl]) = {}

\* C14: a session that ended on a failed read has had CloseClient called for
\* its client: the connection is closed and the client is not in the flat
\* index.
C14_ReadErrorCloses ==
    \A c \in ClientIds :
        pc[c] = "done" =>
            /\ ~Conn[c]
            /\ \A n \in DOMAIN Clients : Clients[n] # c

\* C15: once CloseClient has run for a client, its session makes no further
\* JoinRoom, ChangeNick, Message or Blast call, and the client is never again
\* a value of the flat index.
C15_ClosedIsTerminal ==
    /\ last.op \in {"JoinRoom", "ChangeNick", "Message", "Blast"} => Conn[last.cl]
    /\ \A c \in ClientIds :
          ~Conn[c] => \A n \in DOMAIN Clients : Clients[n] # c

\* C19: a JoinRoom that returns an error leaves the flat index and every
\* room's member set exactly as they were before the call.
C19_FailedJoinChangesNothing ==
    (last.op = "JoinRoom" /\ last.err # "nil") => last.same

\* C20: every key of the flat index is a key of some room's member set, and
\* ChangeNick from a name in the flat index never fails for want of a room.
C20_IndexedHasRoom ==
    /\ \A n \in DOMAIN Clients : roomsOf(n) # {}
    /\ (last.op = "ChangeNick" /\ last.fromIn) => last.err # "does not have a room"

\* after some CloseClient, a rename from an indexed name has found its room
C20_Witness ==
    /\ ~noCloseYet
    /\ last.op = "ChangeNick" /\ last.fromIn /\ ~last.toIn
    /\ last.err = "nil"
    /\ roomsOf(last.to) # {}

\* ---- observations of LockSpec ----
\* the positions inside a Server method, between its Lock and its Unlock
InOp == {"JoinRoom", "ChangeNick", "mid", "CloseClient", "Message", "Blast",
         "fanl", "fanw"}

\* a rename is midway: the room entry of the old name is gone, the new name
\* resolves to no client yet
renameMidway(c) == pc[c] = "mid"

\* the fan-out loop in progress has still to write to client d
awaits(d) == \E k \in DOMAIN fan : fan[k] = d

\* session c holds some client's lock
holdsClientLock(c) == \E d \in ClientIds : cmu[d] = c

\* C13: in a Message fan-out, every member of the room whose own transport
\* takes the line eventually gets it, also when another member's write
\* blocks forever.
C13_BlockedMemberDelaysNoOne ==
    \A d \in ClientIds :
        (last.op = "Message" /\ awaits(d) /\ ConnWrite(d)) ~> ~awaits(d)

\* C16: at most one session is inside JoinRoom, ChangeNick, Message, Blast
\* or CloseClient at any instant, that session holds s.mu, and while a
\* rename is midway no other session is inside any of them.
C16_MethodsAreExclusive ==
    /\ Cardinality({c \in ClientIds : pc[c] \in InOp}) <= 1
    /\ \A c \in ClientIds : pc[c] \in InOp => smu = c
    /\ \A c \in ClientIds :
          renameMidway(c) => \A d \in ClientIds \ {c} : pc[d] \notin InOp

\* a rename is midway while another session is about to call JoinRoom or
\* ChangeNick
C16_Witness ==
    \E c \in ClientIds : \E d \in ClientIds \ {c} :
        /\ renameMidway(c)
        /\ last.from \notin DOMAIN Rooms[last.room]
        /\ pc[d] \in {"init", "nick"}

\* a session holds a client lock only inside Client.Write, never at a point
\* from which it goes on to s.mu.Lock()
LockOrder ==
    \A c \in ClientIds : holdsClientLock(c) => pc[c] \in {"fanw", "write"}

\* C17: no session takes s.mu while it holds a client lock, and when every
\* transport write completes every Server method that was entered returns.
C17_LockOrderNoDeadlock ==
    /\ []LockOrder
    /\ \A c \in ClientIds : (stuck = {} /\ smu = c) ~> (smu # c)

\* every write completes, and a fan-out waits at the lock of a client that
\* is writing its own reply
C17_Witness ==
    \E c \in ClientIds : \E d \in ClientIds \ {c} :
        /\ stuck = {}
        /\ pc[c] = "fanl" /\ smu = c
        /\ fan[visit] = d /\ cmu[d] = d

\* C18: a session that is about to write a client's nickname holds that
\* client's lock.
C18_NickWrittenUnderClientLock ==
    \A c \in ClientIds :
        pc[c] = "mid" => cmu[Clients[last.from]] = c
====
